---- MODULE Spec2Model ----
(***************************************************************************)
(* Chat frontends of ai-proma: the standalone chat page (class FaramexChat, *)
(* ai-server-main/frontend/script.js) and the dashboard chat (class         *)
(* PromaDashboard, ai-proma/frontend/dashboard-script-new.js).              *)
(*                                                                          *)
(* Text is modelled as sequences of one-character strings, so that          *)
(* trimming, splitting, slicing and concatenation are computed as the       *)
(* JavaScript computes them.                                                *)
(***************************************************************************)
EXTENDS Integers, Sequences, FiniteSets, TLC

VARIABLES
    page,            \* which script the browser has loaded: "faramex" | "proma"
    wire,            \* the body the chat endpoint streams (characters)
    input,           \* messageInput.value
    images,          \* attachedImages.length
    sendBtnDisabled, \* sendBtn.disabled
    typingVisible,   \* the typing indicator is displayed
    aiThinking,      \* dashboard: #ai-thinking shown, #ai-status hidden
    chat,            \* children of chatMessages, in document order
    nSends,          \* sendMessage invocations that passed the guard so far
    send,            \* per invocation: the locals of sendMessage / sendToAPI
                     \* and the history of what it did
    returnedEarly,   \* history: the last user event was a sendMessage call
                     \* that returned at its guard
    client,          \* this.token, this.currentUser, the login modal, the
                     \* authentication handler in progress and the last one run
    localStorage,    \* the token and user entries of window.localStorage
    timers,          \* dashboard: pending setTimeout callbacks that call
                     \* addWelcomeMessage
    welcome,         \* dashboard: .welcome-message children of chatMessages
    settings,        \* standalone page: this.apiUrl, this.settings and the
                     \* faramex_settings entry of localStorage
    site             \* login.html, register.html and dashboard.html: the
                     \* page shown, its handler in progress and the auth
                     \* entries of localStorage

vars == <<page, wire, input, images, sendBtnDisabled, typingVisible,
          aiThinking, chat, nSends, send, returnedEarly, client, localStorage,
          timers, welcome, settings, site>>

userState == <<page, wire, input, images, sendBtnDisabled, nSends,
               returnedEarly, client, localStorage, timers, welcome,
               settings, site>>

(***************************************************************************)
(* Bounds of the model.                                                     *)
(***************************************************************************)
MaxSends == 2
MaxLines == 2
MaxImages == 1
MaxReads == 3
MaxTextLen == 3
StallSeconds == 31
MaxTimers == 2
MaxHops == 3

(***************************************************************************)
(* Program and documentation constants.                                     *)
(***************************************************************************)
PrefixLen == 6
TimeoutSeconds == 30

Sends == 1..MaxSends

(***************************************************************************)
(* Text helpers.                                                            *)
(***************************************************************************)
NL == "\n"
SP == " "
QUOTE == "\""

StartsWith(s, p) == Len(s) >= Len(p) /\ SubSeq(s, 1, Len(p)) = p

Slice(s, n) == SubSeq(s, n + 1, Len(s))

RECURSIVE Split(_, _)
Split(s, sep) ==
    IF \E i \in 1..Len(s) : s[i] = sep
    THEN LET i == CHOOSE k \in 1..Len(s) :
                      s[k] = sep /\ \A j \in 1..(k - 1) : s[j] # sep
         IN <<SubSeq(s, 1, i - 1)>> \o Split(SubSeq(s, i + 1, Len(s)), sep)
    ELSE <<s>>

RECURSIVE Trim(_)
Trim(s) ==
    IF s = <<>> THEN s
    ELSE IF Head(s) = SP THEN Trim(Tail(s))
    ELSE IF s[Len(s)] = SP THEN Trim(SubSeq(s, 1, Len(s) - 1))
    ELSE s

RECURSIVE Concat(_)
Concat(ss) == IF ss = <<>> THEN <<>> ELSE Head(ss) \o Concat(Tail(ss))

(***************************************************************************)
(* The wire format: lines of an event stream.                               *)
(***************************************************************************)
DataPrefix == <<"d", "a", "t", "a", ":", " ">>
Sentinel == <<"[", "D", "O", "N", "E", "]">>
ContentOpen ==
    <<"{", QUOTE, "c", "o", "n", "t", "e", "n", "t", QUOTE, ":", QUOTE>>
ContentClose == <<QUOTE, "}">>
Digits == {"0", "1", "2", "3", "4", "5", "6", "7", "8", "9"}

ContentFrame(c) == DataPrefix \o ContentOpen \o c \o ContentClose
LineA == ContentFrame(<<"A">>)
LineB == ContentFrame(<<"B">>)
LineDone == DataPrefix \o Sentinel
LineRaw == DataPrefix \o <<"n", "o", "t", "-", "j", "s", "o", "n">>
LineNum == DataPrefix \o <<"4", "2">>
LineComment == <<":", "o", "k">>

(***************************************************************************)
(* JSON.parse restricted to the payloads the wire above can carry: an       *)
(* object with one string member "content", the empty object, a number,     *)
(* null; every other text over this alphabet is a SyntaxError.              *)
(***************************************************************************)
SyntaxError ==
    [ok |-> FALSE, isNull |-> FALSE, hasContent |-> FALSE, content |-> <<>>]

JSONParse(data) ==
    IF /\ Len(data) >= Len(ContentOpen) + Len(ContentClose)
       /\ StartsWith(data, ContentOpen)
       /\ SubSeq(data, Len(data) - 1, Len(data)) = ContentClose
       /\ \A i \in (Len(ContentOpen) + 1)..(Len(data) - 2) :
             data[i] \notin {QUOTE, "\\", NL}
    THEN [ok |-> TRUE, isNull |-> FALSE, hasContent |-> TRUE,
          content |-> SubSeq(data, Len(ContentOpen) + 1, Len(data) - 2)]
    ELSE IF data = <<"{", "}">>
    THEN [ok |-> TRUE, isNull |-> FALSE, hasContent |-> FALSE,
          content |-> <<>>]
    ELSE IF /\ Len(data) > 0
            /\ \A i \in 1..Len(data) : data[i] \in Digits
            /\ (Len(data) > 1 => data[1] # "0")
    THEN [ok |-> TRUE, isNull |-> FALSE, hasContent |-> FALSE,
          content |-> <<>>]
    ELSE IF data = <<"n", "u", "l", "l">>
    THEN [ok |-> TRUE, isNull |-> TRUE, hasContent |-> FALSE,
          content |-> <<>>]
    ELSE SyntaxError

(***************************************************************************)
(* The bodies the chat endpoint may stream: up to MaxLines lines, each      *)
(* ended by a newline, and the three-frame stream A, B, [DONE].             *)
(***************************************************************************)
Lines == {LineA, LineDone, LineRaw, LineNum, LineComment}

RECURSIVE JoinLines(_)
JoinLines(ls) ==
    IF ls = <<>> THEN <<>> ELSE Head(ls) \o <<NL>> \o JoinLines(Tail(ls))

RoundTripWire == JoinLines(<<LineA, LineB, LineDone>>)

Wires ==
    {JoinLines(ls) : ls \in UNION {[1..n -> Lines] : n \in 1..MaxLines}}
        \cup {RoundTripWire}

(***************************************************************************)
(* Exploration bound: the user sends at most MaxSends messages, and a       *)
(* second message only when the endpoint streams the one-frame body, which  *)
(* arrives in one read.  Every other body is read in up to MaxReads chunks  *)
(* cut anywhere.                                                            *)
(***************************************************************************)
OverlapWires == {<<>>, JoinLines(<<LineA>>)}

(***************************************************************************)
(* Exploration bound: with the authentication handlers in play the user     *)
(* sends one message per page load, and the endpoint streams the one-frame  *)
(* body B, which arrives in one read.                                       *)
(***************************************************************************)
AuthWires == {JoinLines(<<LineB>>)}

OneReadWires == OverlapWires \cup AuthWires

(***************************************************************************)
(* What the dashboard's backend may answer (data.response), and the text    *)
(* callAI substitutes for an empty answer.                                  *)
(***************************************************************************)
Replies == {<<>>, <<"h", "i">>, <<"a", SP, "b">>}
DefaultReply == <<"?">>

Inputs == {<<>>, <<SP>>, <<"h", "i">>}

(***************************************************************************)
(* One sendMessage invocation.                                              *)
(***************************************************************************)
NoElement == [made |-> FALSE, text |-> <<>>]

FreshSend ==
    [pc           |-> "unused",
     message      |-> <<>>,
     posts        |-> 0,      \* requests issued to the chat endpoint
     bearer       |-> "none", \* the token in the Authorization header sent
     pos          |-> 0,      \* characters of the body already read
     reads        |-> 0,      \* reads that returned a chunk
     agentMessage |-> <<>>,   \* sendToAPI: let agentMessage
     element      |-> NoElement, \* sendToAPI: let messageElement
     frames       |-> <<>>,   \* history: every data payload handled
     trace        |-> <<>>,   \* history: what this invocation did, in order
     silence      |-> 0,      \* seconds since the last network activity
     error        |-> "none", \* what sendMessage's catch block caught
     aligned      |-> TRUE,   \* history: every read ended on a line end
     reply        |-> <<>>,   \* typeAIResponse: the parameter text
     words        |-> <<>>,   \* typeAIResponse: const words
     shown        |-> 0,      \* typeAIResponse: words revealed so far
     displayed    |-> <<>>,   \* history: every currentText the loop rendered
     abandoned    |-> FALSE]  \* history: a logout cleared the chat while
                              \* this invocation was in flight

(***************************************************************************)
(* The statements of the handlers, as calls interpreted over the machine    *)
(* m = the UI state and the record r of the invocation s that runs them.    *)
(***************************************************************************)
Machine(s) ==
    [typingVisible |-> typingVisible, aiThinking |-> aiThinking,
     chat |-> chat, r |-> send[s]]

Logged(m, ev) == [m EXCEPT !.r.trace = Append(@, ev)]

AddMessage(m, s, sender, kind) ==
    [m EXCEPT !.chat = Append(@, [sender |-> sender, owner |-> s, kind |-> kind])]

ShowTypingIndicator(m) == Logged([m EXCEPT !.typingVisible = TRUE], "typing_on")

HideTypingIndicator(m) == Logged([m EXCEPT !.typingVisible = FALSE], "typing_off")

ShowAIThinking(m) == Logged([m EXCEPT !.aiThinking = TRUE], "thinking_on")

HideAIThinking(m) == Logged([m EXCEPT !.aiThinking = FALSE], "thinking_off")

Fetch(m) ==
    Logged([m EXCEPT !.r.posts = @ + 1, !.r.silence = 0,
                     !.r.bearer = client.token], "post")

Call(c, s, m) ==
    CASE c = "addMessage:user" -> Logged(AddMessage(m, s, "user", "user"), "user_msg")
      [] c = "addMessage:fallback" ->
             Logged(AddMessage(m, s, "agent", "fallback"), "fallback")
      [] c = "showTypingIndicator" -> ShowTypingIndicator(m)
      [] c = "hideTypingIndicator" -> HideTypingIndicator(m)
      [] c = "showAIThinking" -> ShowAIThinking(m)
      [] c = "hideAIThinking" -> HideAIThinking(m)
      [] c = "fetch" -> Fetch(m)

RECURSIVE Exec(_, _, _)
Exec(calls, s, m) ==
    IF calls = <<>> THEN m ELSE Exec(Tail(calls), s, Call(Head(calls), s, m))

Commit(m, s, pc) ==
    /\ typingVisible' = m.typingVisible
    /\ aiThinking' = m.aiThinking
    /\ chat' = m.chat
    /\ send' = [send EXCEPT ![s] =
                    [m.r EXCEPT !.pc = pc,
                                !.silence = IF pc \in {"done", "failed"}
                                            THEN 0 ELSE @]]

(***************************************************************************)
(* sendMessage, from the guard to the await of the request.                 *)
(***************************************************************************)
SendPrologueIndicatorLate(p) ==
    IF p = "faramex"
    THEN <<"addMessage:user", "fetch", "showTypingIndicator">>
    ELSE <<"addMessage:user", "fetch", "showAIThinking", "showTypingIndicator">>

SendPrologue(p) ==
    IF p = "faramex"
    THEN <<"addMessage:user", "showTypingIndicator", "fetch">>
    ELSE <<"addMessage:user", "showAIThinking", "showTypingIndicator", "fetch">>

(***************************************************************************)
(* The catch block of sendMessage.                                          *)
(***************************************************************************)
FailureHandlerNoHide(p) == <<"addMessage:fallback">>

FailureHandlerRetry(p) ==
    IF p = "faramex"
    THEN <<"hideTypingIndicator", "addMessage:fallback", "fetch">>
    ELSE <<"hideAIThinking", "hideTypingIndicator", "addMessage:fallback",
           "fetch">>

FailureHandler(p) ==
    IF p = "faramex"
    THEN <<"hideTypingIndicator", "addMessage:fallback">>
    ELSE <<"hideAIThinking", "hideTypingIndicator", "addMessage:fallback">>

(***************************************************************************)
(* handleInputChange: the send button follows the input.  The standalone    *)
(* page tests the raw length, the dashboard the trimmed text.               *)
(***************************************************************************)
HandleInputChange(p, value, nImages) ==
    IF p = "faramex"
    THEN Len(value) = 0 /\ nImages = 0
    ELSE Trim(value) = <<>> /\ nImages = 0

(***************************************************************************)
(* Values of the session: null, the demo token and user object of the       *)
(* standalone page, the access token and user name of the dashboard, and    *)
(* what localStorage holds of them.  setItem stores String(value),          *)
(* getItem answers null for a missing entry.                                *)
(***************************************************************************)
Null == "<null>"

Undefined == "<undefined>"

AsString(v) == IF v = Null THEN "null" ELSE v

Stringify(user) == IF user = Null THEN "null" ELSE "user-json"

ParseUser(text) == IF text = "null" THEN Null ELSE "user-object"

Truthy(v) == v \notin {Null, Undefined, ""}

EmptyStorage == [token |-> Null, user |-> Null]

SavedStorage(p) ==
    IF p = "faramex"
    THEN [token |-> "demo-token", user |-> Stringify("user-object")]
    ELSE [token |-> "access-token", user |-> "user-name"]

(***************************************************************************)
(* Settings of the standalone page.  An object is a function from its keys  *)
(* to its values; {...a, ...b} takes b's value for a key both have.         *)
(* JSON.stringify writes a string in quotes and a boolean as a word, and    *)
(* JSON.parse reads them back.  An absent localStorage entry is the empty   *)
(* sequence, a present one a sequence of one text.                          *)
(***************************************************************************)
DefaultUrl == "http://localhost:8000"

DefaultSettings == [autoScroll |-> TRUE, soundNotifications |-> FALSE]

Urls == {"", DefaultUrl, "http://a", "http://b"}

Spread(a, b) ==
    [k \in DOMAIN a \cup DOMAIN b |-> IF k \in DOMAIN b THEN b[k] ELSE a[k]]

IsFlag(k) == k \in {"autoScroll", "soundNotifications"}

StringifySettings(obj) ==
    [k \in DOMAIN obj |->
        IF IsFlag(k)
        THEN [quoted |-> FALSE, text |-> IF obj[k] THEN "true" ELSE "false"]
        ELSE [quoted |-> TRUE, text |-> obj[k]]]

ParseSettings(json) ==
    [k \in DOMAIN json |->
        IF json[k].quoted THEN json[k].text ELSE json[k].text = "true"]

LoadSettings(c, stored) ==
    IF stored = <<>> THEN c
    ELSE LET parsed == ParseSettings(stored[1])
         IN  [apiUrl |-> IF "apiUrl" \in DOMAIN parsed
                            /\ Truthy(parsed.apiUrl)
                         THEN parsed.apiUrl ELSE c.apiUrl,
              settings |-> Spread(c.settings, parsed)]

Constructed(stored) ==
    LoadSettings([apiUrl |-> DefaultUrl, settings |-> DefaultSettings], stored)

SettingsAfterLoad(stored, saved) ==
    LET c == Constructed(stored)
    IN  [apiUrl |-> c.apiUrl, settings |-> c.settings, stored |-> stored,
         saved |-> saved, last |-> "load"]

SaveSettingsWith(c, u, a, s) ==
    LET obj == [c.settings EXCEPT !.autoScroll = a, !.soundNotifications = s]
        written == Spread([apiUrl |-> u], obj)
    IN  [apiUrl |-> u, settings |-> obj,
         stored |-> <<StringifySettings(written)>>,
         saved |-> <<[apiUrl |-> u, autoScroll |-> a,
                      soundNotifications |-> s]>>,
         last |-> "save"]

(***************************************************************************)
(* The auth entries of localStorage that login.html, register.html and      *)
(* dashboard.html share.  A response body carries an access token and a     *)
(* user object, or lacks either; setItem stores String(value), so an        *)
(* undefined value is stored as the text "undefined".                       *)
(***************************************************************************)
AuthKeys ==
    {"proma_token", "proma_user", "proma_user_data", "proma_workspace",
     "isLoggedIn", "user_id", "user_name", "user_email", "rememberMe",
     "login_timestamp"}

NoEntries == [k \in AuthKeys |-> Null]

UserObject ==
    [user_name |-> "name", user_id |-> "id", gmail |-> "mail",
     workspace_id |-> Undefined]

Bodies ==
    [access_token : {"access-token", Undefined}, user : {"user", Undefined}]

SetItem(st, k, v) ==
    [st EXCEPT ![k] = IF v = Undefined THEN "undefined" ELSE AsString(v)]

RemoveItems(st, keys) == [k \in AuthKeys |-> IF k \in keys THEN Null ELSE st[k]]

SetItems(st, kvs) ==
    [k \in AuthKeys |->
        IF \E i \in 1..Len(kvs) : kvs[i][1] = k
        THEN LET last == CHOOSE i \in 1..Len(kvs) :
                            /\ kvs[i][1] = k
                            /\ \A j \in (i + 1)..Len(kvs) : kvs[j][1] # k
             IN  SetItem(st, k, kvs[last][2])[k]
        ELSE st[k]]

(* dashboard-script.js handleLogin: the entries the modal login writes *)
ModalLoginEntries ==
    SetItems(NoEntries, <<<<"proma_token", "access-token">>,
                          <<"proma_user", "name">>,
                          <<"proma_workspace", Undefined>>,
                          <<"proma_user_data", "user-json">>>>)

RestingSite ==
    [at |-> "login", pc |-> "idle", storage |-> NoEntries, shown |-> "none",
     timer |-> "none", via |-> "user", hops |-> 0]

(***************************************************************************)
(* checkAuthentication, run by the constructor: the session is restored     *)
(* when both entries are truthy, else the login form is shown.              *)
(***************************************************************************)
CheckAuthentication(p, storage) ==
    IF Truthy(storage.token) /\ Truthy(storage.user)
    THEN LET user == IF p = "faramex" THEN ParseUser(storage.user)
                     ELSE storage.user
         IN  [token |-> storage.token,
              currentUser |-> user,
              modal |-> FALSE, pc |-> "idle", last |-> "startup",
              sessionId |-> Null,
              creating |-> p = "faramex" /\ user # Null]
    ELSE [token |-> Null, currentUser |-> Null,
          modal |-> TRUE, pc |-> "idle", last |-> "startup",
          sessionId |-> Null, creating |-> FALSE]

(***************************************************************************)
(* createSession settles: the id the server answered, or the mock id of     *)
(* its catch block.                                                         *)
(***************************************************************************)
SessionIds == {"session-id", "demo-session"}

CreateSession(c, id) == [c EXCEPT !.sessionId = id]

(***************************************************************************)
(* Which welcome timer the constructor leaves pending: the dashboard's      *)
(* checkAuthentication sets one when it restores a session.                 *)
(***************************************************************************)
StartupTimers(p, c) == IF p = "proma" /\ ~c.modal THEN 1 ELSE 0

InitWith(wires, storages, settled, sites) ==
    /\ page \in {"faramex", "proma"}
    /\ wire \in wires
    /\ input = <<>>
    /\ images = 0
    /\ sendBtnDisabled \in BOOLEAN
    /\ typingVisible = FALSE
    /\ aiThinking = FALSE
    /\ chat = <<>>
    /\ nSends = 0
    /\ send = [s \in Sends |-> FreshSend]
    /\ returnedEarly = FALSE
    /\ localStorage \in storages
    /\ \E id \in IF settled THEN {"session-id"} ELSE SessionIds :
          client = LET c == CheckAuthentication(page, localStorage)
                   IN  IF settled /\ c.creating
                       THEN [CreateSession(c, id) EXCEPT !.creating = FALSE]
                       ELSE c
    /\ timers = StartupTimers(page, client)
    /\ welcome = 0
    /\ settings = SettingsAfterLoad(<<>>, <<>>)
    /\ site \in sites

(***************************************************************************)
(* The page is loaded with a saved session, which the constructor restores. *)
(***************************************************************************)
Init ==
    InitWith(IF page = "faramex" THEN Wires ELSE {<<>>}, {SavedStorage(page)},
             TRUE, {RestingSite})

(***************************************************************************)
(* User events.                                                             *)
(***************************************************************************)
CanSend == nSends < MaxSends /\ (nSends >= 1 => wire \in OverlapWires)

(***************************************************************************)
(* Exploration bound: a sendMessage call that returns at its guard is       *)
(* followed up while no invocation is waiting; the guard reads nothing of   *)
(* the invocations in flight.                                               *)
(***************************************************************************)
Quiet == \A s \in Sends : send[s].pc \in {"unused", "done", "failed"}

(***************************************************************************)
(* The login modal covers the chat while it is shown.                       *)
(***************************************************************************)
ChatUsable == ~client.modal

InputChange ==
    /\ CanSend
    /\ ChatUsable
    /\ \E v \in Inputs :
          /\ v # input
          /\ input' = v
          /\ sendBtnDisabled' = HandleInputChange(page, v, images)
    /\ returnedEarly' = FALSE
    /\ UNCHANGED <<settings, site, timers, welcome,
                   page, wire, images, typingVisible, aiThinking, chat,
                   nSends, send, client, localStorage>>

AttachImage ==
    /\ CanSend
    /\ ChatUsable
    /\ page = "faramex"
    /\ images < MaxImages
    /\ images' = images + 1
    /\ sendBtnDisabled' = HandleInputChange(page, input, images + 1)
    /\ returnedEarly' = FALSE
    /\ UNCHANGED <<settings, site, timers, welcome,
                   page, wire, input, typingVisible, aiThinking, chat,
                   nSends, send, client, localStorage>>

GuardUntrimmed(value, nImages) == value = <<>> /\ nImages = 0

Guard(value, nImages) == Trim(value) = <<>> /\ nImages = 0

SendMessage ==
    LET message == Trim(input)
    IN  IF Guard(input, images)
        THEN /\ CanSend
             /\ returnedEarly' = Quiet
             /\ UNCHANGED <<settings, site, timers, welcome,
                            page, wire, input, images, sendBtnDisabled,
                            typingVisible, aiThinking, chat, nSends, send,
                            client, localStorage>>
        ELSE /\ CanSend
             /\ LET s == nSends + 1
                    m == Exec(SendPrologue(page), s,
                              [Machine(s) EXCEPT !.r.message = message])
                IN  /\ Commit(m, s, "fetch")
                    /\ nSends' = s
             /\ returnedEarly' = FALSE
             /\ input' = <<>>
             /\ images' = IF page = "faramex" THEN 0 ELSE images
             /\ sendBtnDisabled' =
                    HandleInputChange(page, <<>>,
                                      IF page = "faramex" THEN 0 ELSE images)
             /\ UNCHANGED <<settings, site, timers, welcome,
                            page, wire, client, localStorage>>

ClickSend ==
    /\ ChatUsable
    /\ ~sendBtnDisabled
    /\ SendMessage

KeyEnter ==
    /\ ChatUsable
    /\ page = "faramex" => ~sendBtnDisabled
    /\ SendMessage

(***************************************************************************)
(* sendToAPI, the body of the for loop over the lines of one chunk.         *)
(***************************************************************************)
RenderAlwaysAdds(m, s, text) ==
    Logged([AddMessage(m, s, "agent", "stream")
               EXCEPT !.r.element = [made |-> TRUE, text |-> text]],
           "agent_text")

Render(m, s, text) ==
    IF ~m.r.element.made
    THEN Logged([AddMessage(m, s, "agent", "stream")
                    EXCEPT !.r.element = [made |-> TRUE, text |-> text]],
                "agent_text")
    ELSE Logged([m EXCEPT !.r.element.text = text], "agent_text")

AccumulateOverwrite(m, data, delta) ==
    [m EXCEPT !.r.agentMessage = delta,
              !.r.frames = Append(@, [data |-> data, delta |-> delta])]

Accumulate(m, data, delta) ==
    [m EXCEPT !.r.agentMessage = @ \o delta,
              !.r.frames = Append(@, [data |-> data, delta |-> delta])]

ProcessLineSentinelAsText(line, s, m) ==
    IF StartsWith(line, DataPrefix)
    THEN LET data == Slice(line, PrefixLen)
             json == JSONParse(data)
         IN  IF json.ok /\ ~json.isNull
             THEN LET m1 == Accumulate(m, data, json.content)
                  IN  Render(m1, s, m1.r.agentMessage)
             ELSE LET m1 == Accumulate(m, data, data)
                  IN  Render(m1, s, m1.r.agentMessage)
    ELSE m

ProcessLineUnprefixedAsText(line, s, m) ==
    IF StartsWith(line, DataPrefix)
    THEN LET data == Slice(line, PrefixLen)
             json == JSONParse(data)
         IN  IF data = Sentinel THEN m
             ELSE IF json.ok /\ ~json.isNull
             THEN LET m1 == Accumulate(m, data, json.content)
                  IN  Render(m1, s, m1.r.agentMessage)
             ELSE LET m1 == Accumulate(m, data, data)
                  IN  Render(m1, s, m1.r.agentMessage)
    ELSE LET m1 == Accumulate(m, line, line)
         IN  Render(m1, s, m1.r.agentMessage)

ProcessLine(line, s, m) ==
    IF StartsWith(line, DataPrefix)
    THEN LET data == Slice(line, PrefixLen)
             json == JSONParse(data)
         IN  IF data = Sentinel THEN m
             ELSE IF json.ok /\ ~json.isNull
             THEN LET m1 == Accumulate(m, data, json.content)
                  IN  Render(m1, s, m1.r.agentMessage)
             ELSE LET m1 == Accumulate(m, data, data)
                  IN  Render(m1, s, m1.r.agentMessage)
    ELSE m

RECURSIVE ProcessLinesBreakAtSentinel(_, _, _)
ProcessLinesBreakAtSentinel(lines, s, m) ==
    IF lines = <<>> \/ Head(lines) = LineDone THEN m
    ELSE ProcessLinesBreakAtSentinel(Tail(lines), s,
                                     ProcessLine(Head(lines), s, m))

RECURSIVE ProcessLines(_, _, _)
ProcessLines(lines, s, m) ==
    IF lines = <<>> THEN m
    ELSE ProcessLines(Tail(lines), s, ProcessLine(Head(lines), s, m))

ProcessChunk(chunk, s, m) == ProcessLines(Split(chunk, NL), s, m)

(***************************************************************************)
(* The network: what the awaits of sendToAPI and callAI resolve to.         *)
(***************************************************************************)
Awaiting(s, pc) == s <= nSends /\ send[s].pc = pc

Heard(m) == [m EXCEPT !.r.silence = 0]

Fail(s, error) ==
    /\ Commit(Exec(FailureHandler(page), s,
                   [Machine(s) EXCEPT !.r.error = error]), s, "failed")
    /\ UNCHANGED userState

AfterHeaders(p) ==
    IF p = "faramex" THEN <<"hideTypingIndicator">> ELSE <<>>

FetchResolve(s) ==
    /\ Awaiting(s, "fetch")
    /\ Commit(Exec(AfterHeaders(page), s, Heard(Machine(s))), s,
              IF page = "faramex" THEN "read" ELSE "json")
    /\ UNCHANGED userState

FetchNotOkReadsBody(s) ==
    /\ Awaiting(s, "fetch")
    /\ Commit(Exec(AfterHeaders(page), s,
                   [Heard(Machine(s)) EXCEPT !.r.error = "http_status"]), s,
              IF page = "faramex" THEN "read" ELSE "json")
    /\ UNCHANGED userState

FetchNotOk(s) ==
    /\ Awaiting(s, "fetch")
    /\ Fail(s, "http_status")

FetchReject(s) ==
    /\ Awaiting(s, "fetch")
    /\ Fail(s, "network")

ReadChunk(s) ==
    /\ Awaiting(s, "read")
    /\ \E k \in 1..(Len(wire) - send[s].pos) :
          /\ \/ send[s].pos + k = Len(wire)
             \/ wire \notin OneReadWires /\ send[s].reads + 1 < MaxReads
          /\ LET chunk == SubSeq(wire, send[s].pos + 1, send[s].pos + k)
              m0 == [Heard(Machine(s)) EXCEPT
                        !.r.pos = @ + k,
                        !.r.reads = @ + 1,
                        !.r.aligned = @ /\ chunk[k] = NL]
             IN  Commit(ProcessChunk(chunk, s, m0), s, "read")
    /\ UNCHANGED userState

ReadDone(s) ==
    /\ Awaiting(s, "read")
    /\ send[s].pos = Len(wire)
    /\ Commit(Logged(Machine(s), "completed"), s, "done")
    /\ UNCHANGED userState

ReadReject(s) ==
    /\ Awaiting(s, "read")
    /\ Fail(s, "stream")

(***************************************************************************)
(* Dashboard: callAI's response.json() and typeAIResponse.                  *)
(***************************************************************************)
AfterReply ==
    <<"hideAIThinking", "hideTypingIndicator">>

JsonResolve(s) ==
    /\ Awaiting(s, "json")
    /\ \E reply \in Replies :
          LET text == IF reply # <<>> THEN reply ELSE DefaultReply
              m0 == [Heard(Machine(s)) EXCEPT !.r.reply = text]
          IN  Commit(Exec(AfterReply, s, m0), s, "typewait")
    /\ UNCHANGED userState

JsonReject(s) ==
    /\ Awaiting(s, "json")
    /\ Fail(s, "body")

RECURSIVE JoinWordsNoSpace(_)
JoinWordsNoSpace(ws) ==
    IF ws = <<>> THEN <<>> ELSE Head(ws) \o JoinWordsNoSpace(Tail(ws))

RECURSIVE JoinWords(_)
JoinWords(ws) ==
    IF ws = <<>> THEN <<>>
    ELSE IF Len(ws) = 1 THEN ws[1]
    ELSE JoinWords(SubSeq(ws, 1, Len(ws) - 1)) \o <<SP>> \o ws[Len(ws)]

TypeStart(s) ==
    /\ Awaiting(s, "typewait")
    /\ LET m0 == AddMessage(Machine(s), s, "agent", "typed")
           words == Split(m0.r.reply, SP)
           currentText == JoinWords(SubSeq(words, 1, 1))
           m1 == [m0 EXCEPT !.r.words = words,
                            !.r.element = [made |-> TRUE, text |-> currentText],
                            !.r.shown = 1,
                            !.r.displayed = Append(@, currentText)]
       IN  Commit(Logged(m1, "agent_text"), s, "typing")
    /\ UNCHANGED userState

TypeWord(s) ==
    /\ Awaiting(s, "typing")
    /\ LET r == send[s]
       IN  IF r.shown < Len(r.words)
           THEN LET currentText == JoinWords(SubSeq(r.words, 1, r.shown + 1))
                    m1 == [Machine(s) EXCEPT
                              !.r.shown = @ + 1,
                              !.r.element.text = currentText,
                              !.r.displayed = Append(@, currentText)]
                IN  Commit(Logged(m1, "agent_text"), s, "typing")
           ELSE Commit(Logged(Machine(s), "completed"), s, "done")
    /\ UNCHANGED userState

(***************************************************************************)
(* Time passes while an invocation waits for the network.  No handler of    *)
(* either script is armed on it.                                            *)
(***************************************************************************)
Pending(s) == s <= nSends /\ send[s].pc \in {"fetch", "read", "json"}

Stall(s) ==
    /\ Pending(s)
    /\ send[s].silence <= TimeoutSeconds
    /\ send' = [send EXCEPT ![s].silence = @ + StallSeconds]
    /\ UNCHANGED <<typingVisible, aiThinking, chat>>
    /\ UNCHANGED userState

(***************************************************************************)
(* A welcome timer fires: addWelcomeMessage appends the welcome message     *)
(* unless chatMessages already holds one.                                   *)
(***************************************************************************)
AddWelcomeMessageUnchecked(w) == w + 1

AddWelcomeMessage(w) == IF w > 0 THEN w ELSE w + 1

WelcomeTimer ==
    /\ timers > 0
    /\ timers' = timers - 1
    /\ welcome' = AddWelcomeMessage(welcome)
    /\ UNCHANGED <<settings, site, page, wire, input, images, sendBtnDisabled,
                   typingVisible, aiThinking, chat, nSends, send,
                   returnedEarly, client, localStorage>>

Next ==
    \/ WelcomeTimer
    \/ InputChange
    \/ AttachImage
    \/ ClickSend
    \/ KeyEnter
    \/ \E s \in Sends : FetchResolve(s)
    \/ \E s \in Sends : FetchNotOk(s)
    \/ \E s \in Sends : FetchReject(s)
    \/ \E s \in Sends : ReadChunk(s)
    \/ \E s \in Sends : ReadDone(s)
    \/ \E s \in Sends : ReadReject(s)
    \/ \E s \in Sends : JsonResolve(s)
    \/ \E s \in Sends : JsonReject(s)
    \/ \E s \in Sends : TypeStart(s)
    \/ \E s \in Sends : TypeWord(s)
    \/ \E s \in Sends : Stall(s)

Spec == Init /\ [][Next]_vars

(***************************************************************************)
(* The event loop runs every due timer callback: the steps of               *)
(* typeAIResponse are fair.  Nothing obliges the network or the user.       *)
(***************************************************************************)
FairSpec ==
    /\ Spec
    /\ \A s \in Sends : WF_vars(TypeStart(s)) /\ WF_vars(TypeWord(s))

(***************************************************************************)
(* Authentication.  The standalone page's handleLogin sets a demo token     *)
(* and awaits createSession, which settles whatever the server answers,     *)
(* then calls hideLogin; a click on the backdrop of the login modal calls   *)
(* hideLogin too; logout is synchronous.  The dashboard's handleLogin and   *)
(* handleLogout await the server.                                           *)
(***************************************************************************)
Stored(c) == [token |-> AsString(c.token), user |-> Stringify(c.currentUser)]

SubmitLogin ==
    /\ client.modal
    /\ client.pc = "idle"
    /\ client' = IF page = "faramex"
                 THEN [client EXCEPT !.token = "demo-token",
                                     !.currentUser = "user-object",
                                     !.pc = "login", !.last = "submit"]
                 ELSE [client EXCEPT !.pc = "login", !.last = "submit"]
    /\ UNCHANGED <<settings, site, timers, welcome,
                   page, wire, input, images, sendBtnDisabled, typingVisible,
                   aiThinking, chat, nSends, send, returnedEarly,
                   localStorage>>

LoginOutcomes(p) ==
    IF p = "faramex" THEN SessionIds
    ELSE {"token", "token-no-user", "denied", "error"}

LoginSettles ==
    /\ client.pc = "login"
    /\ \E outcome \in LoginOutcomes(page) :
          IF page = "faramex"
          THEN /\ client' = [CreateSession(client, outcome) EXCEPT
                                  !.modal = FALSE, !.pc = "idle",
                                  !.last = "login"]
               /\ localStorage' = Stored(client)
               /\ UNCHANGED <<chat, typingVisible, timers, welcome>>
          ELSE IF outcome = "token"
          THEN /\ timers < MaxTimers
               /\ client' = [client EXCEPT !.token = "access-token",
                                           !.currentUser = "user-name",
                                           !.modal = FALSE, !.pc = "idle",
                                           !.last = "login"]
               /\ localStorage' = [token |-> "access-token",
                                   user |-> "user-name"]
               /\ chat' = <<>>
               /\ typingVisible' = FALSE
               /\ welcome' = 0
               /\ timers' = timers + 1
          ELSE IF outcome = "token-no-user"
          THEN /\ client' = [client EXCEPT !.token = "access-token",
                                           !.pc = "idle", !.last = "rejected"]
               /\ UNCHANGED <<localStorage, chat, typingVisible, timers,
                              welcome>>
          ELSE /\ client' = [client EXCEPT !.pc = "idle", !.last = "rejected"]
               /\ UNCHANGED <<localStorage, chat, typingVisible, timers,
                              welcome>>
    /\ UNCHANGED <<settings, site,
                   page, wire, input, images, sendBtnDisabled, aiThinking,
                   nSends, send, returnedEarly>>

DismissLogin ==
    /\ page = "faramex"
    /\ client.modal
    /\ client' = [client EXCEPT !.modal = FALSE, !.last = "dismiss"]
    /\ localStorage' = Stored(client)
    /\ UNCHANGED <<settings, site, timers, welcome,
                   page, wire, input, images, sendBtnDisabled, typingVisible,
                   aiThinking, chat, nSends, send, returnedEarly>>

(***************************************************************************)
(* What a logout leaves: logout() of the standalone page, and the try and   *)
(* catch branches of the dashboard's handleLogout, which both call          *)
(* clearAuthData and show the login form.                                   *)
(***************************************************************************)
LogoutEffectKeepsOnError(c, outcome) ==
    IF outcome = "error"
    THEN [client |-> [c EXCEPT !.modal = TRUE, !.pc = "idle",
                               !.last = "logout-failed"],
          removes |-> FALSE, clearsChat |-> FALSE]
    ELSE [client |-> [c EXCEPT !.token = Null, !.currentUser = Null,
                               !.sessionId = Null,
                               !.modal = TRUE, !.last = "logout"],
          removes |-> TRUE, clearsChat |-> TRUE]

LogoutEffect(c, outcome) ==
    [client |-> [c EXCEPT !.token = Null, !.currentUser = Null,
                          !.sessionId = Null,
                          !.modal = TRUE,
                          !.last = IF outcome = "error" THEN "logout-failed"
                                   ELSE "logout"],
     removes |-> TRUE,
     clearsChat |-> outcome # "error"]

LogoutDone(outcome) ==
    LET e == LogoutEffect(client, outcome)
        clears == e.clearsChat /\ page = "proma"
    IN  /\ clears => timers < MaxTimers
        /\ timers' = IF clears THEN timers + 1 ELSE timers
        /\ welcome' = IF clears THEN 0 ELSE welcome
        /\ client' = IF page = "faramex" THEN e.client
                     ELSE [e.client EXCEPT !.pc = "idle"]
        /\ localStorage' = IF e.removes THEN EmptyStorage ELSE localStorage
        /\ chat' = IF e.clearsChat THEN <<>> ELSE chat
        /\ typingVisible' = IF e.clearsChat /\ page = "proma" THEN FALSE
                            ELSE typingVisible
        /\ send' = [s \in Sends |->
                       IF e.clearsChat
                          /\ send[s].pc \notin {"unused", "done", "failed"}
                       THEN [send[s] EXCEPT !.abandoned = TRUE]
                       ELSE send[s]]
        /\ UNCHANGED <<settings, site, page, wire, input, images,
                       sendBtnDisabled, aiThinking, nSends, returnedEarly>>

Logout ==
    /\ ~client.modal
    /\ IF page = "faramex"
       THEN LogoutDone("sync")
       ELSE /\ client.pc = "idle"
            /\ client' = [client EXCEPT !.pc = "logout", !.last = "logout-sent"]
            /\ UNCHANGED <<settings, site, timers, welcome,
                           page, wire, input, images, sendBtnDisabled,
                           typingVisible, aiThinking, chat, nSends, send,
                           returnedEarly, localStorage>>

LogoutSettles ==
    /\ page = "proma"
    /\ client.pc = "logout"
    /\ \E outcome \in {"ok", "error"} : LogoutDone(outcome)

(***************************************************************************)
(* The program with its authentication handlers: the page is loaded with    *)
(* or without a saved session.                                              *)
(***************************************************************************)
AuthInit ==
    InitWith(AuthWires, {EmptyStorage, SavedStorage(page)}, FALSE,
             {RestingSite})

(***************************************************************************)
(* The createSession call that checkAuthentication started and did not      *)
(* await settles.                                                           *)
(***************************************************************************)
SessionSettles ==
    /\ client.creating
    /\ \E id \in SessionIds :
          client' = [CreateSession(client, id) EXCEPT !.creating = FALSE]
    /\ UNCHANGED <<settings, site, timers, welcome, page, wire, input, images,
                   sendBtnDisabled, typingVisible, aiThinking, chat, nSends,
                   send, returnedEarly, localStorage>>

(***************************************************************************)
(* The dashboard's showSection('chat') sets a timer for the welcome         *)
(* message.                                                                 *)
(***************************************************************************)
ShowSection ==
    /\ page = "proma"
    /\ timers < MaxTimers
    /\ timers' = timers + 1
    /\ UNCHANGED <<settings, site, welcome, page, wire, input, images,
                   sendBtnDisabled, typingVisible, aiThinking, chat, nSends,
                   send, returnedEarly, client, localStorage>>

(***************************************************************************)
(* The page is loaded again: the document, the timers and the running       *)
(* handlers of the old page are gone, localStorage stays, and the           *)
(* constructor runs loadSettings and checkAuthentication.                   *)
(***************************************************************************)
Reload ==
    /\ input' = <<>>
    /\ images' = 0
    /\ sendBtnDisabled' \in BOOLEAN
    /\ typingVisible' = FALSE
    /\ aiThinking' = FALSE
    /\ chat' = <<>>
    /\ nSends' = 0
    /\ send' = [s \in Sends |-> FreshSend]
    /\ returnedEarly' = FALSE
    /\ client' = CheckAuthentication(page, localStorage)
    /\ timers' = StartupTimers(page, client')
    /\ welcome' = 0
    /\ settings' = IF page = "faramex"
                   THEN SettingsAfterLoad(settings.stored, settings.saved)
                   ELSE settings
    /\ UNCHANGED <<page, wire, localStorage, site>>

AuthNext ==
    \/ Next
    \/ SubmitLogin
    \/ LoginSettles
    \/ DismissLogin
    \/ Logout
    \/ LogoutSettles
    \/ SessionSettles
    \/ ShowSection
    \/ Reload

AuthSpec == AuthInit /\ [][AuthNext]_vars

(***************************************************************************)
(* The typing renderer on its own: typeAIResponse has just been called      *)
(* with a text, any text over the alphabet up to MaxTextLen characters,     *)
(* the empty one included, and runs to its end.                             *)
(***************************************************************************)
TextAlphabet == {"a", "b", SP}

Texts == UNION {[1..n -> TextAlphabet] : n \in 0..MaxTextLen}

RevealInit ==
    /\ page = "proma"
    /\ wire = <<>>
    /\ input = <<>>
    /\ images = 0
    /\ sendBtnDisabled = TRUE
    /\ typingVisible = FALSE
    /\ aiThinking = FALSE
    /\ chat = <<>>
    /\ nSends = 1
    /\ returnedEarly = FALSE
    /\ localStorage = SavedStorage(page)
    /\ client = CheckAuthentication(page, localStorage)
    /\ timers = 0
    /\ welcome = 1
    /\ settings = SettingsAfterLoad(<<>>, <<>>)
    /\ site = RestingSite
    /\ \E text \in Texts :
          send = [s \in Sends |->
                     IF s = 1
                     THEN [FreshSend EXCEPT !.pc = "typewait", !.reply = text]
                     ELSE FreshSend]

RevealNext ==
    \/ \E s \in Sends : TypeStart(s)
    \/ \E s \in Sends : TypeWord(s)

RevealSpec == RevealInit /\ [][RevealNext]_vars

(***************************************************************************)
(* The settings dialog of the standalone page: saveSettings takes the URL   *)
(* field and the two checkboxes, whatever they hold, and writes the         *)
(* faramex_settings entry; a reload constructs the page from it.            *)
(***************************************************************************)
SaveSettings ==
    /\ page = "faramex"
    /\ \E u \in Urls, a \in BOOLEAN, s \in BOOLEAN :
          settings' = SaveSettingsWith(settings, u, a, s)
    /\ UNCHANGED <<site, timers, welcome, page, wire, input, images,
                   sendBtnDisabled, typingVisible, aiThinking, chat, nSends,
                   send, returnedEarly, client, localStorage>>

SettingsInit ==
    /\ page = "faramex"
    /\ InitWith({<<>>}, {SavedStorage("faramex")}, TRUE, {RestingSite})

SettingsNext ==
    \/ SaveSettings
    \/ Reload

SettingsSpec == SettingsInit /\ [][SettingsNext]_vars

(***************************************************************************)
(* The pages of the dashboard site.  login.html and register.html send a    *)
(* visitor with auth entries on to dashboard.html; dashboard.html runs      *)
(* checkAuth, which sends a visitor without them, or with a token the       *)
(* backend rejects, to login.html.  site.hops counts the navigations the    *)
(* scripts made since the last thing the user did.                          *)
(***************************************************************************)
Pages == {"login", "register", "dashboard"}

ExistingAuth(st) == Truthy(st["proma_token"]) /\ st["isLoggedIn"] = "true"

LocalAuth(st) ==
    /\ Truthy(st["proma_token"])
    /\ Truthy(st["user_id"])
    /\ st["isLoggedIn"] = "true"

Go(s, target, via) ==
    [s EXCEPT !.at = target, !.pc = "loading", !.shown = "none",
              !.timer = "none", !.via = via, !.hops = @ + 1]

ClearAuthData(st) == RemoveItems(st, AuthKeys)

ClearIncompleteAuthDataKeeps(st) == st

ClearIncompleteAuthData(st) == RemoveItems(st, AuthKeys)

PerformLogoutKeys ==
    {"user_id", "user_email", "user_name", "user_company", "isLoggedIn",
     "rememberMe", "proma_token", "proma_user", "proma_workspace",
     "proma_agent", "proma_user_data", "proma_settings"}

(***************************************************************************)
(* storeAuthData of the two forms: the setItem calls in order, up to the    *)
(* first one that reads a property of an undefined data.user and throws.    *)
(***************************************************************************)
LoginStoreAuthData(st, data, remember) ==
    LET cleared == ClearAuthData(st)
        token == SetItem(cleared, "proma_token", data.access_token)
    IN  IF data.user = Undefined
        THEN [storage |-> token, threw |-> TRUE]
        ELSE [storage |->
                 SetItems(token,
                    <<<<"proma_user", UserObject.user_name>>,
                      <<"proma_user_data", "user-json">>,
                      <<"proma_workspace",
                        IF Truthy(UserObject.workspace_id)
                        THEN UserObject.workspace_id ELSE "default">>,
                      <<"isLoggedIn", "true">>,
                      <<"user_id", UserObject.user_id>>,
                      <<"user_name", UserObject.user_name>>,
                      <<"user_email", UserObject.gmail>>,
                      <<"rememberMe", IF remember THEN "true" ELSE "false">>,
                      <<"login_timestamp", "time">>>>),
              threw |-> FALSE]

RegisterStoreAuthData(st, data) ==
    LET token == SetItem(st, "proma_token", data.access_token)
    IN  IF data.user = Undefined
        THEN [storage |-> token, threw |-> TRUE]
        ELSE [storage |->
                 SetItems(token,
                    <<<<"proma_user", UserObject.user_name>>,
                      <<"proma_user_data", "user-json">>,
                      <<"proma_workspace", UserObject.workspace_id>>,
                      <<"isLoggedIn", "true">>,
                      <<"user_id", UserObject.user_id>>,
                      <<"user_name", UserObject.user_name>>,
                      <<"user_email", UserObject.gmail>>,
                      <<"rememberMe", "false">>>>),
              threw |-> FALSE]

LoginValidTokenOnly(data) == Truthy(data.access_token)

LoginValid(data) == Truthy(data.access_token) /\ Truthy(data.user)

Responses == {"ok", "not-ok", "malformed", "network"}

siteRest == <<timers, welcome, settings, page, wire, input, images,
              sendBtnDisabled, typingVisible, aiThinking, chat, nSends, send,
              returnedEarly, client, localStorage>>

(* the user opens a page of the site *)
VisitPage ==
    /\ \E target \in Pages :
          site' = [Go(site, target, "user") EXCEPT !.hops = 0]
    /\ UNCHANGED siteRest

(* the script of the page that was loaded runs *)
SiteStartup ==
    /\ site.pc = "loading"
    /\ IF site.at \in {"login", "register"}
       THEN IF ExistingAuth(site.storage)
            THEN /\ site.hops < MaxHops
                 /\ site' = Go(site, "dashboard", "checkExistingAuth")
            ELSE site' = [site EXCEPT
                             !.pc = "idle",
                             !.shown = IF site.at = "login"
                                          /\ site.via = "checkAuth"
                                       THEN "error" ELSE "none"]
       ELSE IF ~LocalAuth(site.storage)
            THEN /\ site.hops < MaxHops
                 /\ site' = Go([site EXCEPT !.storage =
                                    ClearIncompleteAuthData(@)],
                               "login", "checkAuth")
            ELSE site' = [site EXCEPT !.pc = "verify"]
    /\ UNCHANGED siteRest

(* checkAuth after the await of /auth/verify *)
VerifySettles ==
    /\ site.at = "dashboard"
    /\ site.pc = "verify"
    /\ \E response \in Responses :
          IF response = "not-ok"
          THEN /\ site.hops < MaxHops
               /\ site' = Go([site EXCEPT !.storage =
                                  ClearIncompleteAuthData(@)],
                             "login", "checkAuth")
          ELSE site' = [site EXCEPT !.pc = "idle"]
    /\ UNCHANGED siteRest

(* handleLogin of login.html, up to the await of the request *)
SubmitLoginForm ==
    /\ site.at = "login"
    /\ site.pc = "idle"
    /\ \E valid \in BOOLEAN :
          site' = IF valid
                  THEN [site EXCEPT !.pc = "login", !.shown = "none",
                                    !.hops = 0]
                  ELSE [site EXCEPT !.shown = "error", !.hops = 0]
    /\ UNCHANGED siteRest

LoginFormSettles ==
    /\ site.at = "login"
    /\ site.pc = "login"
    /\ \E response \in Responses, data \in Bodies, remember \in BOOLEAN :
          IF response = "ok" /\ LoginValid(data)
          THEN LET r == LoginStoreAuthData(site.storage, data, remember)
               IN  site' = IF r.threw
                           THEN [site EXCEPT !.pc = "idle",
                                             !.storage = r.storage,
                                             !.shown = "error"]
                           ELSE [site EXCEPT !.pc = "idle",
                                             !.storage = r.storage,
                                             !.shown = "success",
                                             !.timer = "dashboard"]
          ELSE site' = [site EXCEPT !.pc = "idle", !.shown = "error"]
    /\ UNCHANGED siteRest

(* handleRegister of register.html *)
SubmitRegisterForm ==
    /\ site.at = "register"
    /\ site.pc = "idle"
    /\ \E valid \in BOOLEAN :
          site' = IF valid
                  THEN [site EXCEPT !.pc = "register", !.shown = "none",
                                    !.hops = 0]
                  ELSE [site EXCEPT !.shown = "error", !.hops = 0]
    /\ UNCHANGED siteRest

RegisterFormSettles ==
    /\ site.at = "register"
    /\ site.pc = "register"
    /\ \E response \in Responses, data \in Bodies :
          IF response = "ok"
          THEN LET r == RegisterStoreAuthData(site.storage, data)
               IN  IF r.threw
                   THEN site' = [site EXCEPT !.pc = "idle",
                                             !.storage = r.storage,
                                             !.shown = "error"]
                   ELSE /\ site.hops < MaxHops
                        /\ site' = Go([site EXCEPT !.storage = r.storage],
                                      "dashboard", "register")
          ELSE site' = [site EXCEPT !.pc = "idle", !.shown = "error"]
    /\ UNCHANGED siteRest

(* handleLogout and performLogout of dashboard.html *)
PerformLogout(s) ==
    [s EXCEPT !.pc = "idle",
              !.storage = RemoveItems(@, PerformLogoutKeys),
              !.timer = "login"]

SiteLogout ==
    /\ site.at = "dashboard"
    /\ site.pc = "idle"
    /\ site' = IF Truthy(site.storage["proma_token"])
               THEN [site EXCEPT !.pc = "logout", !.hops = 0]
               ELSE [PerformLogout(site) EXCEPT !.hops = 0]
    /\ UNCHANGED siteRest

SiteLogoutSettles ==
    /\ site.at = "dashboard"
    /\ site.pc = "logout"
    /\ site' = PerformLogout(site)
    /\ UNCHANGED siteRest

(* the timer of a successful login, or of performLogout, fires *)
SiteTimer ==
    /\ site.timer # "none"
    /\ site.hops < MaxHops
    /\ site' = Go(site, site.timer,
                  IF site.timer = "dashboard" THEN "login" ELSE "logout")
    /\ UNCHANGED siteRest

SiteInit ==
    /\ page = "proma"
    /\ InitWith({<<>>}, {EmptyStorage}, TRUE,
                {[RestingSite EXCEPT !.at = a, !.pc = "loading",
                                     !.storage = st] :
                    a \in Pages, st \in {NoEntries, ModalLoginEntries}})

SiteNext ==
    \/ VisitPage
    \/ SiteStartup
    \/ VerifySettles
    \/ SubmitLoginForm
    \/ LoginFormSettles
    \/ SubmitRegisterForm
    \/ RegisterFormSettles
    \/ SiteLogout
    \/ SiteLogoutSettles
    \/ SiteTimer

SiteSpec == SiteInit /\ [][SiteNext]_vars

(***************************************************************************)
(* History helpers for the properties.                                      *)
(***************************************************************************)
Started(s) == s <= nSends

NonEmpty(text) == text # <<>>

TextDeltas(frames) ==
    SelectSeq([i \in 1..Len(frames) |-> frames[i].delta], NonEmpty)

Deltas(s) == TextDeltas(send[s].frames)

Count(tr, ev) == Cardinality({i \in 1..Len(tr) : tr[i] = ev})

CountAfter(tr, ev, after) ==
    Cardinality({i \in 1..Len(tr) :
                    tr[i] = ev /\ \E j \in 1..(i - 1) : tr[j] = after})

OwnedInChat(s, kind) ==
    Cardinality({i \in 1..Len(chat) :
                    chat[i].owner = s /\ chat[i].kind = kind})

InFlight(s) ==
    Started(s) /\ send[s].pc \in {"fetch", "read", "json", "typewait", "typing"}

WholeBodyDeltas ==
    LET m == ProcessChunk(wire, 1,
                 [typingVisible |-> FALSE, aiThinking |-> FALSE,
                  chat |-> <<>>, r |-> FreshSend])
    IN  TextDeltas(m.r.frames)

(***************************************************************************)
(* C1: when a streamed response has ended successfully, the text of the     *)
(* agent bubble is the concatenation, in order, of every delta the read     *)
(* loop appended, and a bubble exists exactly when a data payload was       *)
(* handled.                                                                 *)
(***************************************************************************)
C1_DisplayedIsConcatenation ==
    \A s \in Sends :
        (page = "faramex" /\ send[s].pc = "done") =>
            /\ send[s].element.text = Concat(Deltas(s))
            /\ send[s].element.made <=> send[s].frames # <<>>
            /\ OwnedInChat(s, "stream") = (IF send[s].frames = <<>> THEN 0 ELSE 1)

C1_Witness ==
    \E s \in Sends :
        /\ page = "faramex" /\ send[s].pc = "done"
        /\ Len(send[s].frames) = 2
        /\ Len(Deltas(s)) = 2
        /\ send[s].reads = 2

(***************************************************************************)
(* C2: every data payload other than the sentinel that is not a frame with  *)
(* a content field is appended verbatim to the accumulated text.            *)
(***************************************************************************)
C2_UnstructuredAppendedVerbatim ==
    \A s \in Sends :
        \A i \in 1..Len(send[s].frames) :
            LET f == send[s].frames[i]
            IN  ~JSONParse(f.data).hasContent => f.delta = f.data

(***************************************************************************)
(* C3: however the body is cut into chunks, the deltas appended by the end  *)
(* of the stream are those appended when the body arrives as one chunk.     *)
(***************************************************************************)
C3_ChunkingDoesNotMatter ==
    \A s \in Sends :
        (page = "faramex" /\ send[s].pc = "done") => Deltas(s) = WholeBodyDeltas

(***************************************************************************)
(* C4: in every invocation that passed the guard, the typing indicator is   *)
(* shown before the request is issued and before any agent text or          *)
(* fallback message of that invocation is rendered.                         *)
(***************************************************************************)
C4_IndicatorFirst ==
    \A s \in Sends :
        LET tr == send[s].trace
        IN  \A i \in 1..Len(tr) :
                tr[i] \in {"post", "agent_text", "fallback"} =>
                    \E j \in 1..(i - 1) : tr[j] = "typing_on"

C4_Witness ==
    \E s \in Sends :
        /\ Count(send[s].trace, "post") = 1
        /\ Count(send[s].trace, "agent_text") >= 1
        /\ Count(send[s].trace, "fallback") = 1

C6_SilenceAborts ==
    \A s \in Sends :
        (Started(s) /\ send[s].silence > TimeoutSeconds) =>
            (send[s].pc = "failed" /\ send[s].error = "timeout")

(***************************************************************************)
(* C7: every invocation eventually reaches a terminal outcome with the      *)
(* indicator hidden, whatever the endpoint does.                            *)
(***************************************************************************)
C7_EventuallySettled ==
    \A s \in Sends :
        (send[s].pc = "fetch") ~>
            (send[s].pc \in {"done", "failed"} /\ ~typingVisible /\ ~aiThinking)

(***************************************************************************)
(* C8: the body A, B, [DONE], read frame by frame (every read ends on a     *)
(* line end), accumulates "AB", shows "AB" in one bubble and completes      *)
(* once.                                                                    *)
(***************************************************************************)
C8_RoundTrip ==
    \A s \in Sends :
        (/\ page = "faramex"
         /\ wire = RoundTripWire
         /\ send[s].pc = "done"
         /\ send[s].aligned) =>
            /\ send[s].agentMessage = <<"A", "B">>
            /\ send[s].element = [made |-> TRUE, text |-> <<"A", "B">>]
            /\ Deltas(s) = <<(<<"A">>), (<<"B">>)>>
            /\ Count(send[s].trace, "completed") = 1
            /\ OwnedInChat(s, "stream") = 1

C8_Witness ==
    \E s \in Sends :
        /\ wire = RoundTripWire
        /\ send[s].pc = "done"
        /\ send[s].aligned
        /\ send[s].reads = 3

(***************************************************************************)
(* C9: at most one invocation is in flight at any time.                     *)
(***************************************************************************)
C9_OneInFlight ==
    Cardinality({s \in Sends : InFlight(s)}) <= 1

(***************************************************************************)
(* C10: every invocation that passed the guard has issued exactly one       *)
(* request, from its start and also after it failed; no other request is    *)
(* issued.                                                                  *)
(***************************************************************************)
C10_OnePostPerSend ==
    \A s \in Sends :
        /\ send[s].posts = (IF Started(s) THEN 1 ELSE 0)
        /\ Count(send[s].trace, "post") = send[s].posts

C10_Witness ==
    \E s \in Sends :
        /\ send[s].pc = "failed"
        /\ send[s].posts = 1
        /\ nSends = MaxSends

(***************************************************************************)
(* History helpers over the lines of the body.                              *)
(***************************************************************************)
LinesRead(s) ==
    LET ls == Split(SubSeq(wire, 1, send[s].pos), NL)
    IN  SubSeq(ls, 1, Len(ls) - 1)

IsPayloadLine(line) ==
    StartsWith(line, DataPrefix) /\ Slice(line, PrefixLen) # Sentinel

Payload(line) == Slice(line, PrefixLen)

(***************************************************************************)
(* C17: the sentinel does not end the read loop.  The loop ends only when   *)
(* the whole body has been read, and when the sentinel line is followed by  *)
(* another line, that line is handled as if the sentinel had not been       *)
(* there: a content frame after the sentinel is appended and displayed.     *)
(***************************************************************************)
C17_SentinelDoesNotEndLoop ==
    \A s \in Sends :
        (page = "faramex" /\ Started(s)) =>
            /\ send[s].pc = "done" => send[s].pos = Len(wire)
            /\ \A l \in Lines :
                  (/\ wire = JoinLines(<<LineDone, l>>)
                   /\ send[s].pc = "done"
                   /\ send[s].aligned) =>
                      /\ Len(send[s].frames) = (IF IsPayloadLine(l) THEN 1 ELSE 0)
                      /\ \A i \in 1..Len(send[s].frames) :
                            send[s].frames[i].data = Payload(l)
                      /\ l = LineA =>
                            /\ send[s].agentMessage = <<"A">>
                            /\ send[s].element = [made |-> TRUE, text |-> <<"A">>]

C17_Witness ==
    \E s \in Sends :
        /\ wire = JoinLines(<<LineDone, LineA>>)
        /\ send[s].pc = "done"
        /\ send[s].aligned
        /\ send[s].agentMessage = <<"A">>

(***************************************************************************)
(* C18: a complete line that does not start with the data prefix changes    *)
(* nothing.  While every read ends on a line end, the payloads handled are  *)
(* exactly those of the prefixed lines read so far other than the           *)
(* sentinel, in order; a body made of unprefixed lines only leaves the      *)
(* accumulated text empty, renders no bubble and ends without a fallback.   *)
(***************************************************************************)
C18_UnprefixedLineIgnored ==
    \A s \in Sends :
        (page = "faramex" /\ Started(s) /\ send[s].aligned) =>
            LET payloads == SelectSeq(LinesRead(s), IsPayloadLine)
            IN  /\ Len(send[s].frames) = Len(payloads)
                /\ \A i \in 1..Len(payloads) :
                      send[s].frames[i].data = Payload(payloads[i])
                /\ (payloads = <<>> /\ send[s].pc \in {"read", "done"}) =>
                      /\ send[s].agentMessage = <<>>
                      /\ send[s].element = NoElement
                      /\ OwnedInChat(s, "stream") = 0
                      /\ Count(send[s].trace, "fallback") = 0
                      /\ send[s].error = "none"

C18_Witness ==
    \E s \in Sends :
        /\ wire = JoinLines(<<LineComment, LineA>>)
        /\ send[s].pc = "read"
        /\ send[s].aligned
        /\ send[s].reads = 1
        /\ LinesRead(s) = <<LineComment>>
        /\ send[s].element = NoElement

(***************************************************************************)
(* C19: an invocation whose request was answered with a non-success status  *)
(* has failed without reading the body: nothing was read, no agent text of  *)
(* the response was rendered and no completion was reported.                *)
(***************************************************************************)
C19_NotOkFailsUnread ==
    \A s \in Sends :
        send[s].error = "http_status" =>
            /\ send[s].pc = "failed"
            /\ send[s].reads = 0
            /\ send[s].pos = 0
            /\ send[s].frames = <<>>
            /\ send[s].words = <<>>
            /\ send[s].element = NoElement
            /\ Count(send[s].trace, "agent_text") = 0
            /\ Count(send[s].trace, "completed") = 0
            /\ OwnedInChat(s, "stream") + OwnedInChat(s, "typed") = 0

C19_Witness ==
    \E s \in Sends :
        /\ send[s].error = "http_status"
        /\ send[s].pc = "failed"
        /\ OwnedInChat(s, "fallback") = 1

(***************************************************************************)
(* C13: there is no gap in the visual feedback.  As long as an invocation   *)
(* is in flight and none of its agent text has been displayed, the typing   *)
(* indicator is visible; this is claimed for every invocation, also when    *)
(* several are in flight.                                                   *)
(***************************************************************************)
C13_NoGapInFeedback ==
    \A s \in Sends :
        (InFlight(s) /\ Count(send[s].trace, "agent_text") = 0) =>
            typingVisible

(***************************************************************************)
(* The agent status an invocation displays, in order: showAIThinking        *)
(* replaces the status line by the thinking line, hideAIThinking puts the   *)
(* status line (Online) back.  The standalone page writes its status in     *)
(* updateUI only, which no invocation calls.                                *)
(***************************************************************************)
IsStatusChange(ev) == ev \in {"thinking_on", "thinking_off"}

StatusShown(ev) == IF ev = "thinking_on" THEN "Thinking" ELSE "Online"

Statuses(s) ==
    LET evs == SelectSeq(send[s].trace, IsStatusChange)
    IN  [i \in 1..Len(evs) |-> StatusShown(evs[i])]

(***************************************************************************)
(* C20: an invocation that ended successfully has displayed the statuses    *)
(* Thinking, Streaming, Online, in this order.                              *)
(***************************************************************************)
C20_ThinkingStreamingOnline ==
    \A s \in Sends :
        send[s].pc = "done" =>
            Statuses(s) = <<"Thinking", "Streaming", "Online">>

IsPrefix(p, text) == Len(p) <= Len(text) /\ SubSeq(text, 1, Len(p)) = p

UserMessages == Cardinality({i \in 1..Len(chat) : chat[i].sender = "user"})

Requests == [s \in Sends |-> send[s].posts]

C11_EmptyMessageNotSent ==
    /\ [](/\ \A s \in Sends :
               /\ ~Started(s) => (send[s].posts = 0 /\ send[s].trace = <<>>)
               /\ Count(send[s].trace, "user_msg") = (IF Started(s) THEN 1 ELSE 0)
               /\ Count(send[s].trace, "post") = (IF Started(s) THEN 1 ELSE 0)
          /\ UserMessages = nSends
          /\ returnedEarly => (Trim(input) = <<>> /\ images = 0 /\ Quiet))
    /\ [][(Trim(input) = <<>> /\ images = 0) =>
              /\ nSends' = nSends
              /\ UserMessages' = UserMessages
              /\ Requests' = Requests]_vars

C11_Witness ==
    /\ returnedEarly
    /\ input = <<SP>>
    /\ ~sendBtnDisabled
    /\ nSends = 1
    /\ UserMessages = 1

(***************************************************************************)
(* C12: every chat request carries a bearer token the client holds from a   *)
(* login or a restored session: none is issued while this.token is null.    *)
(***************************************************************************)
C12_RequestsCarryToken ==
    \A s \in Sends :
        Started(s) => send[s].bearer \notin {Null, "none"}

(***************************************************************************)
(* C16: when a logout has completed, whether its API call succeeded or      *)
(* failed, and nothing has been done since, the token and user entries are  *)
(* absent from localStorage, this.token and this.currentUser are null, the  *)
(* login form is shown, and a startup from this storage shows the login     *)
(* form without restoring a session.                                        *)
(***************************************************************************)
LoggedOut == client.last \in {"logout", "logout-failed"}

C16_LogoutClearsSession ==
    LoggedOut =>
        /\ localStorage = EmptyStorage
        /\ client.token = Null
        /\ client.currentUser = Null
        /\ client.modal
        /\ CheckAuthentication(page, localStorage).modal
        /\ CheckAuthentication(page, localStorage).token = Null

C16_Witness ==
    /\ page = "proma"
    /\ client.last = "logout-failed"
    /\ localStorage = EmptyStorage
    /\ nSends >= 1

(***************************************************************************)
(* C21: an invocation that was in flight when a logout ended the session    *)
(* and cleared the chat renders nothing afterwards: whatever is in the      *)
(* transcript was put there after the logout, so the transcript holds no    *)
(* agent text and no fallback message of that invocation, and the           *)
(* invocation has not touched the indicator since.                          *)
(***************************************************************************)
C21_AbandonedRendersNothing ==
    \A s \in Sends :
        send[s].abandoned =>
            /\ OwnedInChat(s, "stream") = 0
            /\ OwnedInChat(s, "typed") = 0
            /\ OwnedInChat(s, "fallback") = 0

(***************************************************************************)
(* C22: every invocation has its own accumulator and its own bubble.  An    *)
(* invocation has at most one bubble of streamed text in the transcript,    *)
(* exactly when it has handled a payload; at every moment its accumulator   *)
(* and its bubble hold the concatenation of its own deltas, each delta      *)
(* having been rendered once; and the transcript holds one such bubble per  *)
(* invocation that has one, also while invocations overlap.                 *)
(***************************************************************************)
C22_OwnAccumulatorAndBubble ==
    /\ \A s \in Sends :
          page = "faramex" =>
              /\ OwnedInChat(s, "stream") = (IF send[s].element.made THEN 1 ELSE 0)
              /\ send[s].element.made <=> send[s].frames # <<>>
              /\ send[s].agentMessage = Concat(Deltas(s))
              /\ send[s].element.text = send[s].agentMessage
              /\ Count(send[s].trace, "agent_text") = Len(send[s].frames)
    /\ page = "faramex" =>
          Cardinality({i \in 1..Len(chat) : chat[i].kind = "stream"})
              = Cardinality({s \in Sends : send[s].element.made})

C22_Witness ==
    /\ nSends = 2
    /\ \A s \in 1..2 :
          /\ send[s].pc = "read"
          /\ send[s].element = [made |-> TRUE, text |-> <<"A">>]
    /\ Cardinality({i \in 1..Len(chat) : chat[i].kind = "stream"}) = 2

(***************************************************************************)
(* C23: settings round trip.  After a save of URL u and the two flags, the  *)
(* next load of the page has exactly u as its API URL and those flags,      *)
(* whatever was saved and loaded before.                                    *)
(***************************************************************************)
C23_SettingsRoundTrip ==
    (settings.last = "load" /\ settings.saved # <<>>) =>
        /\ settings.apiUrl = settings.saved[1].apiUrl
        /\ settings.settings.autoScroll = settings.saved[1].autoScroll
        /\ settings.settings.soundNotifications
               = settings.saved[1].soundNotifications

(***************************************************************************)
(* C24: on the standalone page the token and user entries of localStorage   *)
(* are those a login wrote, and a startup that restores a session restores  *)
(* the token of a login.                                                    *)
(***************************************************************************)
C24_RestoredSessionsComeFromLogin ==
    page = "faramex" =>
        /\ localStorage \in {EmptyStorage, SavedStorage("faramex")}
        /\ (client.last = "startup" /\ ~client.modal)
               => client.token = "demo-token"

(***************************************************************************)
(* C25: on the standalone page the session id is null from a logout until   *)
(* the next login, also when a createSession call that was started before   *)
(* the logout settles after it.                                             *)
(***************************************************************************)
C25_SessionIdNullAfterLogout ==
    (page = "faramex" /\ client.last = "logout") => client.sessionId = Null

(***************************************************************************)
(* C26: the dashboard's transcript holds at most one welcome message,       *)
(* whatever the order of showSection('chat'), clearChat, the startup and    *)
(* the timer callbacks.                                                     *)
(***************************************************************************)
C26_AtMostOneWelcome == page = "proma" => welcome <= 1

C26_Witness ==
    /\ page = "proma"
    /\ welcome = 1
    /\ timers = MaxTimers
    /\ client.last = "login"

(***************************************************************************)
(* C30: a modal login of the dashboard that ends with the auth error shown  *)
(* leaves this.token and this.currentUser as they were and writes nothing   *)
(* to localStorage.                                                         *)
(***************************************************************************)
C30_FailedLoginChangesNothing ==
    [][(page = "proma" /\ client.pc = "login" /\ client'.last = "rejected")
          => /\ client'.token = client.token
             /\ client'.currentUser = client.currentUser
             /\ localStorage' = localStorage]_vars

(***************************************************************************)
(* C27: login.html and dashboard.html do not send the visitor back and      *)
(* forth: when checkAuth has sent the visitor to login.html, the auth       *)
(* entries are cleared, so checkExistingAuth lets the login page stay, and  *)
(* the scripts never navigate more than twice in a row.                     *)
(***************************************************************************)
C27_NoRedirectLoop ==
    /\ (site.at = "login" /\ site.pc = "loading" /\ site.via = "checkAuth")
           => ~ExistingAuth(site.storage)
    /\ site.hops <= 2

C27_Witness ==
    /\ site.at = "login"
    /\ site.pc = "loading"
    /\ site.via = "checkAuth"
    /\ site.hops = 2

(***************************************************************************)
(* C28: a registration attempt that ends with an error shown leaves the     *)
(* auth entries of localStorage as they were.                               *)
(***************************************************************************)
C28_FailedRegisterWritesNothing ==
    [][(site.at = "register" /\ site'.at = "register"
        /\ site'.shown = "error")
          => site'.storage = site.storage]_vars

(***************************************************************************)
(* C29: on the login page the auth entries change only when an attempt      *)
(* ends with the success message, and then the token and the user data      *)
(* are stored; an attempt that ends with an error leaves them as they       *)
(* were; and in every state isLoggedIn = 'true' comes with a stored         *)
(* proma_token.                                                             *)
(***************************************************************************)
C29_LoginWritesOnlyOnValidResponse ==
    /\ [](site.storage["isLoggedIn"] = "true"
             => Truthy(site.storage["proma_token"]))
    /\ [][(site.at = "login" /\ site'.at = "login"
            /\ site'.storage # site.storage)
              => /\ site.pc = "login"
                 /\ site'.shown = "success"
                 /\ site'.storage["proma_token"] = "access-token"
                 /\ site'.storage["proma_user_data"] # Null]_vars

C29_Witness ==
    /\ site.at = "login"
    /\ site.shown = "success"
    /\ site.timer = "dashboard"
    /\ site.storage["isLoggedIn"] = "true"
    /\ site.storage["proma_token"] = "access-token"
====
